---- MODULE Spec2Model ----
(***************************************************************************)
(* Model of the zzz-Secure admission-control stores:                       *)
(*   - PostgresTokenBucketStore  (src/src/token-bucket/pg.ts)              *)
(*   - MemoryLeakyBucketStore    (src/unnamed/part_000, lines 51-203)      *)
(*   - the Redis suspicion scripts (src/unnamed/part_000, lines 1-50)      *)
(*   - the ZShield admission gate  (src/src/shield/lib.ts)                 *)
(* Time is in milliseconds.  Real-valued leaky-bucket capacity is kept as  *)
(* an exact integer scaled by windowMs.                                    *)
(***************************************************************************)
EXTENDS Integers, Sequences, FiniteSets, TLC

VARIABLES
    clock,              \* Date.now() / redis TIME: the wall clock, in ms
    keys,               \* the client keys in use
    maxClock,           \* the clock stops advancing here
    \* ---- PostgresTokenBucketStore
    callers,            \* the callers (connections) that use the durable store
    bucketCapacity,     \* this.bucketCapacity
    tokensPerInterval,  \* this.tokensPerInterval (tokens per second)
    token_buckets,      \* the table: key -> row (committed state)
    rowLock,            \* key -> caller holding the row lock, 0 if free
    conn,               \* caller -> position and locals of its call in flight
    \* ---- MemoryLeakyBucketStore (bucketCapacity is shared: one store is in use)
    windowMs,           \* options.windowMs; leakRate = bucketCapacity / windowMs
    clients,            \* this.clients: key -> Client, remaining scaled by windowMs
    \* ---- suspicion store (Redis scripts) and ZShield
    suspicionThreshold, \* ARGV[1] / this.suspicionThreshold
    blockDurationMs,    \* ARGV[2] / this.blockDurationMs
    ttl,                \* ARGV[3]
    redis,              \* key -> hash {score, expiry, isBlocked}
    sret,               \* what the script that has just run did and returned
    gate,               \* the request the middleware is handling
    verdict,            \* what the middleware has just answered
    hits,               \* key -> suspicious requests in a row since no record
    \* ---- observation
    backend,            \* the store implementation constructed: "pg" or "mem"
    ret,                \* what the call that has just returned gave its caller
    batch               \* key -> increments committed since a quiescent resetKey

envVars == <<keys, maxClock, backend>>

pgVars == <<callers, bucketCapacity, tokensPerInterval, token_buckets, rowLock,
            conn>>

memVars == <<windowMs, clients>>

obsVars == <<ret, batch>>

cfgVars == <<suspicionThreshold, blockDurationMs, ttl>>

shieldVars == <<cfgVars, redis, sret, gate, verdict, hits>>

vars == <<clock, envVars, pgVars, memVars, obsVars, shieldVars>>

(***************************************************************************)
(* Bounds and program constants                                            *)
(***************************************************************************)
\* The clock stops advancing after this many seconds (sequential runs).
MaxClockSec == 6

\* The clock stops advancing after this many seconds (concurrent callers).
MaxClockConcSec == 1

\* elapsedTime / 1000
MsPerSec == 1000

\* options.maxTokens default
DefaultMaxTokens == 10

Keys == {"k1", "k2"}

Procs == {1, 2}

\* amounts by which the wall clock advances between steps
TickSteps == {500, 1000}

Max(a, b) == IF a >= b THEN a ELSE b

Min(a, b) == IF a <= b THEN a ELSE b

(***************************************************************************)
(* PostgresTokenBucketStore                                                *)
(***************************************************************************)
NoRow == [exists |-> FALSE, tokens |-> 0, last_refill_time |-> 0]

Row(t, l) == [exists |-> TRUE, tokens |-> t, last_refill_time |-> l]

Idle == [pc |-> "idle", op |-> "none", key |-> "k1", now |-> 0, found |-> FALSE,
         updatedTokens |-> 0, lastRefillTime |-> 0, staged |-> FALSE,
         inTx |-> FALSE, cause |-> "none", err |-> "none", rolledBack |-> FALSE,
         released |-> FALSE, seq |-> -1, wrote |-> FALSE]

NoRet == [op |-> "none", caller |-> 0, key |-> "k1", err |-> "none",
          cause |-> "none", rolledBack |-> FALSE, released |-> FALSE,
          found |-> FALSE, totalHits |-> 0, resetTime |-> 0, seq |-> -1,
          wrote |-> FALSE, pre |-> NoRow, afterReset |-> FALSE]

NoBatch == [n |-> -1, base |-> 0]

NoClient == [exists |-> FALSE, remaining |-> 0, lastUpdated |-> 0]

NoRec == [exists |-> FALSE, score |-> 0, expiry |-> 0, isBlocked |-> FALSE]

Rec(s, e, b) == [exists |-> TRUE, score |-> s, expiry |-> e, isBlocked |-> b]

\* no script ran just before, at the same reading of the clock
NoPrior == [op |-> "none", key |-> "k1", value |-> 0, pre |-> NoRec,
            deleted |-> {}]

NoScript == [op |-> "none", key |-> "k1", value |-> 0, now |-> 0, pre |-> NoRec,
             deleted |-> {}, before |-> NoPrior]

\* what the script that ran just before s did and returned
Prior(s) == [op |-> s.op, key |-> s.key, value |-> s.value, pre |-> s.pre,
             deleted |-> s.deleted]

NoGate == [pc |-> "idle", ip |-> "none", attackTypes |-> {}, increments |-> 0]

NoVerdict == [ip |-> "none", status |-> "none", by |-> "none", score |-> 0,
              increments |-> 0, n |-> -1, attackTypes |-> {}]

\* the suspicion store and the gate after construction
InitShield(configs) ==
    /\ \E c \in configs :
          /\ suspicionThreshold = c.threshold
          /\ blockDurationMs = c.blockDurationMs
          /\ ttl = c.ttl
    /\ redis = [k \in Keys |-> NoRec]
    /\ sret = NoScript
    /\ gate = NoGate
    /\ verdict = NoVerdict
    /\ hits = [k \in Keys |-> 0]


\* this.refillInterval = 1000 / (options.refillRate ?? 1)
refillInterval == MsPerSec \div tokensPerInterval

\* Math.floor((elapsedTime / 1000) * this.tokensPerInterval)
tokensToAdd(now, lastRefillTime) ==
    ((now - lastRefillTime) * tokensPerInterval) \div MsPerSec

\* Math.min(currentTokens + tokensToAdd, this.bucketCapacity)
newTokens(currentTokens, now, lastRefillTime) ==
    Min(currentTokens + tokensToAdd(now, lastRefillTime), bucketCapacity)

\* a consumption that does not test newTokens > 0
updatedTokens_unguarded(currentTokens, now, lastRefillTime) ==
    newTokens(currentTokens, now, lastRefillTime) - 1

\* canConsume ? newTokens - 1 : newTokens
updatedTokens(currentTokens, now, lastRefillTime) ==
    LET n == newTokens(currentTokens, now, lastRefillTime)
    IN  IF n > 0 THEN n - 1 ELSE n

\* some caller other than p has a call in flight on key k
OthersInFlight(p, k) ==
    \E q \in callers \ {p} : conn[q].pc # "idle" /\ conn[q].key = k

InitPG(caps, rates, who) ==
    /\ callers = who
    /\ bucketCapacity \in caps
    /\ tokensPerInterval \in rates
    /\ token_buckets = [k \in Keys |-> NoRow]
    /\ rowLock = [k \in Keys |-> 0]
    /\ conn = [p \in Procs |-> Idle]
    /\ ret = NoRet
    /\ batch = [k \in Keys |-> NoBatch]
    /\ backend = "pg"
    /\ windowMs = 0
    /\ clients = [k \in Keys |-> NoClient]
    /\ InitShield({[threshold |-> 5, blockDurationMs |-> 60000, ttl |-> 60000]})

\* increment: const now = Date.now(); const client = await this.pool.connect();
StartIncrement(p, k) ==
    /\ p \in callers /\ k \in keys /\ conn[p].pc = "idle"
    /\ conn' = [conn EXCEPT ![p] = [Idle EXCEPT !.pc = "connect", !.op = "inc",
                                                !.key = k, !.now = clock]]
    /\ ret' = NoRet
    /\ UNCHANGED <<clock, envVars, memVars, shieldVars, callers, bucketCapacity, tokensPerInterval,
                   token_buckets, rowLock, batch>>

\* decrement: const client = await this.pool.connect();
StartDecrement(p, k) ==
    /\ p \in callers /\ k \in keys /\ conn[p].pc = "idle"
    /\ conn' = [conn EXCEPT ![p] = [Idle EXCEPT !.pc = "connect", !.op = "dec",
                                                !.key = k]]
    /\ ret' = NoRet
    /\ UNCHANGED <<clock, envVars, memVars, shieldVars, callers, bucketCapacity, tokensPerInterval,
                   token_buckets, rowLock, batch>>

\* pool.connect() resolves
Connect(p) ==
    /\ conn[p].pc = "connect"
    /\ conn' = [conn EXCEPT ![p].pc = "begin"]
    /\ ret' = NoRet
    /\ UNCHANGED <<clock, envVars, memVars, shieldVars, callers, bucketCapacity, tokensPerInterval,
                   token_buckets, rowLock, batch>>

\* pool.connect() rejects: thrown before the try block, nothing to roll back
ConnectFail(p) ==
    /\ conn[p].pc = "connect"
    /\ ret' = [NoRet EXCEPT !.op = conn[p].op, !.caller = p, !.key = conn[p].key,
                              !.err = "connect", !.cause = "connect"]
    /\ conn' = [conn EXCEPT ![p] = Idle]
    /\ UNCHANGED <<clock, envVars, memVars, shieldVars, callers, bucketCapacity, tokensPerInterval,
                   token_buckets, rowLock, batch>>

\* await client.query('BEGIN')
Begin(p) ==
    /\ conn[p].pc = "begin"
    /\ conn' = [conn EXCEPT ![p].pc = "select", ![p].inTx = TRUE]
    /\ ret' = NoRet
    /\ UNCHANGED <<clock, envVars, memVars, shieldVars, callers, bucketCapacity, tokensPerInterval,
                   token_buckets, rowLock, batch>>

\* SELECT ... WHERE key = $1 FOR UPDATE: locks the row it returns; a key
\* without a committed row returns no row and locks nothing.
\* increment: lines 49-70; decrement: lines 120-127.
Select(p) ==
    LET k == conn[p].key
        row == token_buckets[k]
        cur == IF row.exists THEN row.tokens ELSE 0
        lrt == IF row.exists THEN row.last_refill_time ELSE conn[p].now
    IN  /\ conn[p].pc = "select"
        /\ row.exists => rowLock[k] = 0
        /\ rowLock' = IF row.exists THEN [rowLock EXCEPT ![k] = p] ELSE rowLock
        /\ conn' = [conn EXCEPT ![p].pc = "write", ![p].found = row.exists,
              ![p].lastRefillTime = IF conn[p].op = "inc" THEN lrt ELSE 0,
              ![p].updatedTokens =
                  IF conn[p].op = "inc"
                  THEN updatedTokens(cur, conn[p].now, lrt)
                  ELSE IF row.exists THEN Min(cur + 1, bucketCapacity) ELSE 0]
        /\ ret' = NoRet
        /\ UNCHANGED <<clock, envVars, memVars, shieldVars, callers, bucketCapacity, tokensPerInterval,
                       token_buckets, batch>>

\* increment: INSERT ... ON CONFLICT (key) DO UPDATE (lines 73-79), which waits
\* for a concurrent writer of the key; decrement: UPDATE when a row was found
\* (lines 125-134).  The write stays private to the transaction until COMMIT.
Write(p) ==
    LET k == conn[p].key
        writes == conn[p].op = "inc" \/ conn[p].found
    IN  /\ conn[p].pc = "write"
        /\ writes => rowLock[k] \in {0, p}
        /\ rowLock' = IF writes THEN [rowLock EXCEPT ![k] = p] ELSE rowLock
        /\ conn' = [conn EXCEPT ![p].pc = "commit", ![p].staged = writes]
        /\ ret' = NoRet
        /\ UNCHANGED <<clock, envVars, memVars, shieldVars, callers, bucketCapacity, tokensPerInterval,
                       token_buckets, batch>>

\* an upsert that keeps the stored last_refill_time when no token was added
Committed_keepsRefillTime(p) ==
    LET k == conn[p].key
        idle == conn[p].found
                /\ tokensToAdd(conn[p].now, conn[p].lastRefillTime) = 0
    IN  IF ~conn[p].staged THEN token_buckets[k]
        ELSE IF conn[p].op = "inc"
             THEN Row(conn[p].updatedTokens,
                      IF idle THEN conn[p].lastRefillTime ELSE conn[p].now)
             ELSE [token_buckets[k] EXCEPT !.tokens = conn[p].updatedTokens]

\* the row a committing transaction leaves for its key
Committed(p) ==
    LET k == conn[p].key
    IN  IF ~conn[p].staged THEN token_buckets[k]
        ELSE IF conn[p].op = "inc"
             THEN Row(conn[p].updatedTokens, conn[p].now)
             ELSE [token_buckets[k] EXCEPT !.tokens = conn[p].updatedTokens]

\* await client.query('COMMIT').  The increments committed after a resetKey
\* are counted up to bucketCapacity + 2.
Commit(p) ==
    LET k == conn[p].key
        counted == conn[p].op = "inc" /\ batch[k].n >= 0 /\ batch[k].n < bucketCapacity + 2
    IN  /\ conn[p].pc = "commit"
        /\ token_buckets' = [token_buckets EXCEPT ![k] = Committed(p)]
        /\ rowLock' = [rowLock EXCEPT ![k] = IF rowLock[k] = p THEN 0 ELSE rowLock[k]]
        /\ batch' = [batch EXCEPT ![k] =
              IF counted THEN [batch[k] EXCEPT !.n = batch[k].n + 1]
              ELSE IF conn[p].op = "inc" \/ conn[p].staged THEN NoBatch
              ELSE batch[k]]
        /\ conn' = [conn EXCEPT ![p].pc = "release", ![p].inTx = FALSE,
                                ![p].staged = FALSE,
                                ![p].wrote = conn[p].staged,
                                ![p].seq = IF counted THEN batch[k].n + 1 ELSE -1]
        /\ ret' = NoRet
        /\ UNCHANGED <<clock, envVars, memVars, shieldVars, callers, bucketCapacity, tokensPerInterval>>

\* a query of the transaction (BEGIN, SELECT, the write, COMMIT) rejects:
\* control passes to the catch block
QueryFail(p) ==
    /\ conn[p].pc \in {"begin", "select", "write", "commit"}
    /\ conn' = [conn EXCEPT ![p].pc = "rollback", ![p].cause = conn[p].pc,
                            ![p].err = conn[p].pc]
    /\ ret' = NoRet
    /\ UNCHANGED <<clock, envVars, memVars, shieldVars, callers, bucketCapacity, tokensPerInterval,
                   token_buckets, rowLock, batch>>

\* catch (error) { await client.query('ROLLBACK'); throw error; }
Rollback(p) ==
    LET k == conn[p].key
    IN  /\ conn[p].pc = "rollback"
        /\ rowLock' = [rowLock EXCEPT ![k] = IF rowLock[k] = p THEN 0 ELSE rowLock[k]]
        /\ conn' = [conn EXCEPT ![p].pc = "release", ![p].inTx = FALSE,
                                ![p].staged = FALSE, ![p].rolledBack = TRUE]
        /\ ret' = NoRet
        /\ UNCHANGED <<clock, envVars, memVars, shieldVars, callers, bucketCapacity, tokensPerInterval,
                       token_buckets, batch>>

\* the ROLLBACK query itself rejects (the connection is gone): its error
\* leaves the catch block instead of `error`; the server aborts the
\* transaction of the lost connection and frees its locks
RollbackFail(p) ==
    LET k == conn[p].key
    IN  /\ conn[p].pc = "rollback"
        /\ rowLock' = [rowLock EXCEPT ![k] = IF rowLock[k] = p THEN 0 ELSE rowLock[k]]
        /\ conn' = [conn EXCEPT ![p].pc = "release", ![p].inTx = FALSE,
                                ![p].staged = FALSE, ![p].rolledBack = TRUE,
                                ![p].err = "rollback"]
        /\ ret' = NoRet
        /\ UNCHANGED <<clock, envVars, memVars, shieldVars, callers, bucketCapacity, tokensPerInterval,
                       token_buckets, batch>>

\* finally { client.release(); } and the return / throw to the caller
\* increment returns { totalHits: updatedTokens,
\*                     resetTime: lastRefillTime + this.refillInterval }
Release(p) ==
    LET ok == conn[p].op = "inc" /\ conn[p].err = "none"
    IN  /\ conn[p].pc = "release"
        /\ ret' = [NoRet EXCEPT !.op = conn[p].op, !.caller = p,
              !.key = conn[p].key, !.err = conn[p].err, !.cause = conn[p].cause,
              !.rolledBack = conn[p].rolledBack, !.released = TRUE,
              !.found = conn[p].found /\ conn[p].err = "none",
              !.totalHits = IF ok THEN conn[p].updatedTokens ELSE 0,
              !.resetTime = IF ok THEN conn[p].lastRefillTime + refillInterval ELSE 0,
              !.seq = conn[p].seq, !.wrote = conn[p].wrote]
        /\ conn' = [conn EXCEPT ![p] = Idle]
        /\ UNCHANGED <<clock, envVars, memVars, shieldVars, callers, bucketCapacity, tokensPerInterval,
                       token_buckets, rowLock, batch>>

\* get(key): one SELECT outside any transaction, reads the committed row
PgGet(p, k) ==
    LET row == token_buckets[k]
    IN  /\ p \in callers /\ k \in keys /\ conn[p].pc = "idle"
        /\ ret' = IF row.exists
                    THEN [NoRet EXCEPT !.op = "get", !.caller = p, !.key = k,
                            !.found = TRUE, !.totalHits = row.tokens,
                            !.resetTime = row.last_refill_time + refillInterval,
                            !.pre = row,
                            !.afterReset = (ret.op = "reset" /\ ret.key = k)]
                    ELSE [NoRet EXCEPT !.op = "get", !.caller = p, !.key = k,
                            !.afterReset = (ret.op = "reset" /\ ret.key = k)]
        /\ UNCHANGED <<clock, envVars, memVars, shieldVars, callers, bucketCapacity, tokensPerInterval,
                       token_buckets, rowLock, conn, batch>>

\* resetKey: const now = Date.now(); then the upsert is awaited
StartResetKey(p, k) ==
    /\ p \in callers /\ k \in keys /\ conn[p].pc = "idle"
    /\ conn' = [conn EXCEPT ![p] = [Idle EXCEPT !.pc = "reset", !.op = "reset",
                                                !.key = k, !.now = clock]]
    /\ ret' = NoRet
    /\ UNCHANGED <<clock, envVars, memVars, shieldVars, callers, bucketCapacity, tokensPerInterval,
                   token_buckets, rowLock, batch>>

\* resetKey: INSERT ... ON CONFLICT DO UPDATE, autocommitted; waits for a
\* transaction that holds the row
ResetKeyQuery(p) ==
    LET k == conn[p].key
    IN  /\ conn[p].pc = "reset"
        /\ rowLock[k] = 0
        /\ token_buckets' = [token_buckets EXCEPT
                               ![k] = Row(bucketCapacity, conn[p].now)]
        /\ batch' = [batch EXCEPT ![k] =
              IF OthersInFlight(p, k) THEN NoBatch
              ELSE [n |-> 0, base |-> conn[p].now]]
        /\ ret' = [NoRet EXCEPT !.op = "reset", !.caller = p, !.key = k]
        /\ conn' = [conn EXCEPT ![p] = Idle]
        /\ UNCHANGED <<clock, envVars, memVars, shieldVars, callers, bucketCapacity, tokensPerInterval,
                       rowLock>>

\* resetAll: DELETE FROM token_buckets; waits for every row lock
PgResetAll(p) ==
    /\ p \in callers /\ conn[p].pc = "idle"
    /\ \A k \in Keys : rowLock[k] = 0
    /\ \E k \in Keys : token_buckets[k].exists
    /\ token_buckets' = [k \in Keys |-> NoRow]
    /\ batch' = [k \in Keys |-> NoBatch]
    /\ ret' = [NoRet EXCEPT !.op = "resetAll", !.caller = p]
    /\ UNCHANGED <<clock, envVars, memVars, shieldVars, callers, bucketCapacity, tokensPerInterval,
                   rowLock, conn>>

(***************************************************************************)
(* MemoryLeakyBucketStore.  Its methods contain no await: each call runs   *)
(* to completion as one step.  remaining is stored multiplied by windowMs, *)
(* so that leaked = elapsedTime * bucketCapacity / windowMs is exact.      *)
(***************************************************************************)
Client(r, l) == [exists |-> TRUE, remaining |-> r, lastUpdated |-> l]

\* one unit of capacity, in the scaled representation
Unit == windowMs

\* a client record in the shape of a table row, for the observations
AsRow(c) == [exists |-> c.exists, tokens |-> c.remaining,
             last_refill_time |-> c.lastUpdated]

\* updateBucket(client): leaked = elapsedTime * leakRate;
\* remaining = Math.min(remaining + leaked, bucketCapacity); lastUpdated = now
updateBucket(client, now) ==
    Client(Min(client.remaining + (now - client.lastUpdated) * bucketCapacity,
               bucketCapacity * Unit),
           now)

\* getClient(key): the existing client, or a new full one
getClient(k, now) ==
    IF clients[k].exists THEN clients[k] ELSE Client(bucketCapacity * Unit, now)

\* resetTime: lastUpdated + bucketCapacity / leakRate
memResetTime(client) == client.lastUpdated + windowMs

InitMem(configs) ==
    /\ backend = "mem"
    /\ \E c \in configs : bucketCapacity = c.max /\ windowMs = c.windowMs
    /\ clients = [k \in Keys |-> NoClient]
    /\ callers = {}
    /\ tokensPerInterval = 1
    /\ token_buckets = [k \in Keys |-> NoRow]
    /\ rowLock = [k \in Keys |-> 0]
    /\ conn = [p \in Procs |-> Idle]
    /\ ret = NoRet
    /\ batch = [k \in Keys |-> NoBatch]
    /\ InitShield({[threshold |-> 5, blockDurationMs |-> 60000, ttl |-> 60000]})

\* get(key)
MemGet(k) ==
    LET c == updateBucket(clients[k], clock)
    IN  /\ backend = "mem" /\ k \in keys
        /\ IF clients[k].exists
           THEN /\ clients' = [clients EXCEPT ![k] = c]
                /\ ret' = [NoRet EXCEPT !.op = "get", !.key = k, !.found = TRUE,
                              !.totalHits = c.remaining,
                              !.resetTime = memResetTime(c),
                              !.pre = AsRow(clients[k]),
                              !.afterReset = (ret.op = "reset" /\ ret.key = k)]
           ELSE /\ clients' = clients
                /\ ret' = [NoRet EXCEPT !.op = "get", !.key = k,
                              !.afterReset = (ret.op = "reset" /\ ret.key = k)]
        /\ UNCHANGED <<clock, envVars, pgVars, shieldVars, windowMs, batch>>

\* an increment that does not see what earlier calls wrote: it works on a
\* full bucket whatever the stored record
Incremented_lostUpdate(k, now) ==
    LET c == updateBucket(Client(bucketCapacity * Unit, now), now)
    IN  IF c.remaining <= 0 THEN c
        ELSE [c EXCEPT !.remaining = c.remaining - Unit]

\* the client record increment(key) leaves
Incremented(k, now) ==
    LET c == updateBucket(getClient(k, now), now)
    IN  IF c.remaining <= 0 THEN c
        ELSE [c EXCEPT !.remaining = c.remaining - Unit]

\* increment(key)
MemIncrement(k) ==
    LET u == updateBucket(getClient(k, clock), clock)
        c == Incremented(k, clock)
        n == IF ~clients[k].exists THEN 1
             ELSE IF batch[k].n >= 0 /\ batch[k].n < bucketCapacity + 2
                  THEN batch[k].n + 1 ELSE -1
    IN  /\ backend = "mem" /\ k \in keys
        /\ clients' = [clients EXCEPT ![k] = c]
        /\ batch' = [batch EXCEPT ![k] =
              IF n < 0 THEN NoBatch
              ELSE [n |-> n, base |-> IF clients[k].exists THEN batch[k].base
                                      ELSE clock]]
        /\ ret' = [NoRet EXCEPT !.op = "inc", !.key = k, !.found = clients[k].exists,
                      !.totalHits = IF u.remaining <= 0 THEN 0 ELSE c.remaining,
                      !.resetTime = memResetTime(c), !.seq = n,
                      !.pre = AsRow(clients[k])]
        /\ UNCHANGED <<clock, envVars, pgVars, shieldVars, windowMs>>

\* decrement(key) without the Math.min against bucketCapacity
MemDecrement_uncapped(k) ==
    /\ backend = "mem" /\ k \in keys
    /\ clients' = IF clients[k].exists
                  THEN [clients EXCEPT ![k].remaining = clients[k].remaining + Unit]
                  ELSE clients
    /\ batch' = [batch EXCEPT ![k] = NoBatch]
    /\ ret' = [NoRet EXCEPT !.op = "dec", !.key = k, !.found = clients[k].exists,
                             !.pre = AsRow(clients[k])]
    /\ UNCHANGED <<clock, envVars, pgVars, shieldVars, windowMs>>

\* decrement(key)
MemDecrement(k) ==
    /\ backend = "mem" /\ k \in keys
    /\ clients' = IF clients[k].exists
                  THEN [clients EXCEPT ![k].remaining =
                          Min(clients[k].remaining + Unit, bucketCapacity * Unit)]
                  ELSE clients
    /\ batch' = [batch EXCEPT ![k] = NoBatch]
    /\ ret' = [NoRet EXCEPT !.op = "dec", !.key = k, !.found = clients[k].exists,
                             !.pre = AsRow(clients[k])]
    /\ UNCHANGED <<clock, envVars, pgVars, shieldVars, windowMs>>

\* resetKey(key): this.clients.delete(key)
MemResetKey(k) ==
    /\ backend = "mem" /\ k \in keys
    /\ clients' = [clients EXCEPT ![k] = NoClient]
    /\ batch' = [batch EXCEPT ![k] = NoBatch]
    /\ ret' = [NoRet EXCEPT !.op = "reset", !.key = k]
    /\ UNCHANGED <<clock, envVars, pgVars, shieldVars, windowMs>>

\* resetAll(): this.clients.clear()
MemResetAll ==
    /\ backend = "mem"
    /\ \E k \in Keys : clients[k].exists
    /\ clients' = [k \in Keys |-> NoClient]
    /\ batch' = [k \in Keys |-> NoBatch]
    /\ ret' = [NoRet EXCEPT !.op = "resetAll"]
    /\ UNCHANGED <<clock, envVars, pgVars, shieldVars, windowMs>>

NextMem ==
    \/ \E k \in Keys : MemGet(k)
    \/ \E k \in Keys : MemIncrement(k)
    \/ \E k \in Keys : MemDecrement(k)
    \/ \E k \in Keys : MemResetKey(k)
    \/ MemResetAll

(***************************************************************************)
(* Suspicion store: the two Lua scripts, each run atomically by Redis      *)
(***************************************************************************)
\* scores above this are not incremented further
MaxScore == 7

\* tonumber(redis.call('TIME')[1]) * 1000: whole seconds, in ms
redisNow == (clock \div MsPerSec) * MsPerSec

\* scripts.increment with an expired record compared by < instead of <=
incrementScript_strictExpiry(rec, now) ==
    IF ~rec.exists \/ rec.expiry < now
    THEN Rec(1, now + ttl, FALSE)
    ELSE IF rec.score + 1 >= suspicionThreshold
         THEN Rec(rec.score + 1, now + blockDurationMs, TRUE)
         ELSE Rec(rec.score + 1, now + ttl, rec.isBlocked)

\* scripts.increment whose reset branch does not write isBlocked
incrementScript_keepsBlock(rec, now) ==
    IF ~rec.exists \/ rec.expiry <= now
    THEN Rec(1, now + ttl, rec.isBlocked)
    ELSE IF rec.score + 1 >= suspicionThreshold
         THEN Rec(rec.score + 1, now + blockDurationMs, TRUE)
         ELSE Rec(rec.score + 1, now + ttl, rec.isBlocked)

\* scripts.increment that blocks only above the threshold
incrementScript_blocksLate(rec, now) ==
    IF ~rec.exists \/ rec.expiry <= now
    THEN Rec(1, now + ttl, FALSE)
    ELSE IF rec.score + 1 > suspicionThreshold
         THEN Rec(rec.score + 1, now + blockDurationMs, TRUE)
         ELSE Rec(rec.score + 1, now + ttl, rec.isBlocked)

\* scripts.increment: the hash the script leaves for its key
incrementScript(rec, now) ==
    IF ~rec.exists \/ rec.expiry <= now
    THEN Rec(1, now + ttl, FALSE)
    ELSE IF rec.score + 1 >= suspicionThreshold
         THEN Rec(rec.score + 1, now + blockDurationMs, TRUE)
         ELSE Rec(rec.score + 1, now + ttl, rec.isBlocked)

\* a sweep that spares the records expiring exactly now
expiredKeys_strict(now) ==
    {k \in Keys : redis[k].exists /\ redis[k].expiry < now}

\* a sweep that deletes every record, expired or not
expiredKeys_all(now) == {k \in Keys : redis[k].exists}

\* scripts.flushExpired: the keys whose hash the sweep deletes
expiredKeys(now) == {k \in Keys : redis[k].exists /\ redis[k].expiry <= now}

\* hits after the sweep: a deleted key starts afresh
hitsAfterFlush(gone) == [k \in Keys |-> IF k \in gone THEN 0 ELSE hits[k]]

\* a client runs scripts.increment on key k; the script returns the score
ScriptIncrement(k) ==
    LET new == incrementScript(redis[k], redisNow)
    IN  /\ backend = "redis" /\ k \in keys
        /\ redis[k].score < MaxScore
        /\ redis' = [redis EXCEPT ![k] = new]
        /\ sret' = [NoScript EXCEPT !.op = "increment", !.key = k,
                       !.value = new.score, !.now = redisNow, !.pre = redis[k],
                       !.before = Prior(sret)]
        /\ hits' = [hits EXCEPT ![k] = -1]
        /\ verdict' = NoVerdict
        /\ UNCHANGED <<clock, envVars, pgVars, memVars, obsVars, cfgVars, gate>>

\* scripts.flushExpired (ZShield.flushExpiredScores); returns the number deleted
FlushExpired ==
    LET gone == expiredKeys(redisNow)
    IN  /\ backend \in {"redis", "shield"}
        /\ redis' = [k \in Keys |-> IF k \in gone THEN NoRec ELSE redis[k]]
        /\ sret' = [NoScript EXCEPT !.op = "flushExpired",
                       !.value = Cardinality(gone), !.now = redisNow,
                       !.deleted = gone, !.before = Prior(sret)]
        /\ hits' = hitsAfterFlush(gone)
        /\ verdict' = NoVerdict
        /\ UNCHANGED <<clock, envVars, pgVars, memVars, obsVars, cfgVars, gate>>

(***************************************************************************)
(* ZShield.middleware: one request at a time, suspended at each await      *)
(***************************************************************************)
\* the category sets the detector is tried on
AttackInputs == {{}, {"XSS"}, {"XSS", "SQL Injection"}}

\* a detector that needs two matching categories
isSuspicious_multiple(attackTypes) == Cardinality(attackTypes) > 1

\* detectMaliciousRequest: isSuspicious = attackTypes.length > 0
isSuspicious(attackTypes) == Cardinality(attackTypes) > 0

\* memoryStore.isBlocked(clientIP): the current blocked state of the key
isBlocked(k) == redis[k].exists /\ redis[k].isBlocked

\* the number of the suspicious request that has just been answered
hitNumber(k) ==
    IF hits[k] >= 0 /\ hits[k] < suspicionThreshold + 2 THEN hits[k] + 1 ELSE -1

\* a request arrives: const clientIP = req.ip; if (!clientIP) deny
Arrive(ip, attackTypes) ==
    /\ backend = "shield" /\ gate.pc = "idle"
    /\ ip \in keys \cup {"none"}
    /\ IF ip = "none"
       THEN /\ gate' = NoGate
            /\ verdict' = [NoVerdict EXCEPT !.status = "deny", !.by = "noip"]
       ELSE /\ gate' = [NoGate EXCEPT !.pc = "isBlocked", !.ip = ip,
                                      !.attackTypes = attackTypes]
            /\ verdict' = NoVerdict
    /\ sret' = NoScript
    /\ UNCHANGED <<clock, envVars, pgVars, memVars, obsVars, cfgVars, redis, hits>>

\* await this.memoryStore.isBlocked(clientIP); then the detector
CheckBlocked ==
    LET ip == gate.ip
        n == hitNumber(ip)
    IN  /\ gate.pc = "isBlocked"
        /\ IF isBlocked(ip)
           THEN /\ gate' = NoGate
                /\ verdict' = [NoVerdict EXCEPT !.ip = ip, !.status = "deny",
                      !.by = "blocked", !.attackTypes = gate.attackTypes,
                      !.n = IF isSuspicious(gate.attackTypes) THEN n ELSE -1]
                /\ hits' = IF isSuspicious(gate.attackTypes)
                           THEN [hits EXCEPT ![ip] = n] ELSE hits
           ELSE IF ~isSuspicious(gate.attackTypes)
           THEN /\ gate' = NoGate
                /\ verdict' = [NoVerdict EXCEPT !.ip = ip, !.status = "allow",
                                                !.by = "clean"]
                /\ hits' = hits
           ELSE /\ gate' = [gate EXCEPT !.pc = "increment"]
                /\ verdict' = NoVerdict
                /\ hits' = hits
        /\ sret' = NoScript
        /\ UNCHANGED <<clock, envVars, pgVars, memVars, obsVars, cfgVars, redis>>

\* const currentScore = await this.memoryStore.increment(clientIP, ...);
\* deny when currentScore >= this.suspicionThreshold, else next()
Increment ==
    LET ip == gate.ip
        new == incrementScript(redis[ip], redisNow)
        n == hitNumber(ip)
    IN  /\ gate.pc = "increment"
        /\ redis' = [redis EXCEPT ![ip] = new]
        /\ sret' = [NoScript EXCEPT !.op = "increment", !.key = ip,
                       !.value = new.score, !.now = redisNow, !.pre = redis[ip],
                       !.before = Prior(sret)]
        /\ gate' = NoGate
        /\ verdict' = [NoVerdict EXCEPT !.ip = ip,
              !.status = IF new.score >= suspicionThreshold THEN "deny" ELSE "allow",
              !.by = "score", !.score = new.score,
              !.increments = gate.increments + 1, !.n = n,
              !.attackTypes = gate.attackTypes]
        /\ hits' = [hits EXCEPT ![ip] = n]
        /\ UNCHANGED <<clock, envVars, pgVars, memVars, obsVars, cfgVars>>

\* the wall clock advances
Tick ==
    /\ \E d \in TickSteps :
          /\ clock + d <= maxClock
          /\ clock' = clock + d
    /\ ret' = NoRet
    /\ sret' = NoScript
    /\ verdict' = NoVerdict
    /\ hits' = [k \in Keys |-> IF redis[k].exists THEN -1 ELSE 0]
    /\ UNCHANGED <<envVars, pgVars, memVars, batch, cfgVars, redis, gate>>

NextSuspicion ==
    \/ \E k \in Keys : ScriptIncrement(k)
    \/ FlushExpired
    \/ Tick

NextShield ==
    \/ \E ip \in Keys \cup {"none"}, a \in AttackInputs : Arrive(ip, a)
    \/ CheckBlocked
    \/ Increment
    \/ FlushExpired
    \/ Tick

NextPG ==
    \/ \E p \in Procs, k \in Keys : StartIncrement(p, k)
    \/ \E p \in Procs, k \in Keys : StartDecrement(p, k)
    \/ \E p \in Procs, k \in Keys : StartResetKey(p, k)
    \/ \E p \in Procs, k \in Keys : PgGet(p, k)
    \/ \E p \in Procs : PgResetAll(p)
    \/ \E p \in Procs : Connect(p)
    \/ \E p \in Procs : ConnectFail(p)
    \/ \E p \in Procs : Begin(p)
    \/ \E p \in Procs : Select(p)
    \/ \E p \in Procs : Write(p)
    \/ \E p \in Procs : Commit(p)
    \/ \E p \in Procs : QueryFail(p)
    \/ \E p \in Procs : Rollback(p)
    \/ \E p \in Procs : RollbackFail(p)
    \/ \E p \in Procs : Release(p)
    \/ \E p \in Procs : ResetKeyQuery(p)
    \/ Tick

\* two concurrent callers on one key
InitPGConc ==
    /\ clock = 0 /\ keys = {"k1"} /\ maxClock = MaxClockConcSec * MsPerSec
    /\ InitPG({3}, {1}, {1, 2})

SpecPG == InitPGConc /\ [][NextPG]_vars

\* increment calls only, each running to its commit
NextPGInc ==
    \/ \E p \in Procs, k \in Keys : StartIncrement(p, k)
    \/ \E p \in Procs : Connect(p)
    \/ \E p \in Procs : Begin(p)
    \/ \E p \in Procs : Select(p)
    \/ \E p \in Procs : Write(p)
    \/ \E p \in Procs : Commit(p)
    \/ \E p \in Procs : Release(p)
    \/ Tick

\* two concurrent callers that only increment one key
SpecPGInc == InitPGConc /\ [][NextPGInc]_vars

\* one store, durable or in-memory, used by one caller at a time
InitBucket ==
    /\ clock = 0 /\ keys = {"k1"} /\ maxClock = MaxClockSec * MsPerSec
    /\ \/ InitPG({DefaultMaxTokens}, {1}, {1})
       \/ InitMem({[max |-> DefaultMaxTokens, windowMs |-> 10000]})

SpecBucket == InitBucket /\ [][NextPG \/ NextMem]_vars

\* one store, durable or in-memory, used by one caller on two keys
InitFrame ==
    /\ clock = 0 /\ keys = Keys /\ maxClock = MaxClockConcSec * MsPerSec
    /\ \/ InitPG({1}, {1}, {1})
       \/ InitMem({[max |-> 2, windowMs |-> 2000]})

SpecFrame == InitFrame /\ [][NextPG \/ NextMem]_vars

\* neither bucket store is in use
NoBuckets ==
    /\ callers = {} /\ bucketCapacity = DefaultMaxTokens /\ tokensPerInterval = 1
    /\ token_buckets = [k \in Keys |-> NoRow]
    /\ rowLock = [k \in Keys |-> 0]
    /\ conn = [p \in Procs |-> Idle]
    /\ windowMs = 0
    /\ clients = [k \in Keys |-> NoClient]
    /\ ret = NoRet
    /\ batch = [k \in Keys |-> NoBatch]

ShieldConfigs ==
    {[threshold |-> 5, blockDurationMs |-> 3000, ttl |-> 2000],
     [threshold |-> 2, blockDurationMs |-> 1000, ttl |-> 3000]}

\* clients running the two scripts against the shared Redis
InitSuspicion ==
    /\ clock = 0 /\ keys = Keys /\ maxClock = MaxClockSec * MsPerSec
    /\ backend = "redis"
    /\ NoBuckets
    /\ InitShield(ShieldConfigs)

SpecSuspicion == InitSuspicion /\ [][NextSuspicion]_vars

\* requests passing through ZShield.middleware, and the periodic sweep
InitGate ==
    /\ clock = 0 /\ keys = Keys /\ maxClock = MaxClockSec * MsPerSec
    /\ backend = "shield"
    /\ NoBuckets
    /\ InitShield(ShieldConfigs)

SpecShield == InitGate /\ [][NextShield]_vars

(***************************************************************************)
(* Claims about the bucket stores                                          *)
(***************************************************************************)
\* one unit of remaining capacity as the store in use represents it
UnitOf == IF backend = "mem" THEN windowMs ELSE 1

\* the remaining capacity the store in use holds for key k
Stored(k) == IF backend = "mem" THEN clients[k].remaining
             ELSE token_buckets[k].tokens

\* no call of another caller is in flight on key k
Quiescent(k) == \A p \in callers : conn[p].pc = "idle" \/ conn[p].key # k

\* a caller is between the row select and the end of its transaction
InCritical(p) ==
    /\ conn[p].op \in {"inc", "dec"}
    /\ \/ conn[p].pc \in {"write", "commit"}
       \/ conn[p].pc = "rollback" /\ conn[p].cause \in {"write", "commit"}

\* C1: after every operation the stored and the returned remaining value lie
\* between 0 and the capacity, in the durable and in the in-memory store.
C1_RemainingWithinBounds ==
    /\ \A k \in Keys :
          /\ token_buckets[k].exists =>
                /\ 0 <= token_buckets[k].tokens
                /\ token_buckets[k].tokens <= bucketCapacity
          /\ clients[k].exists =>
                /\ 0 <= clients[k].remaining
                /\ clients[k].remaining <= bucketCapacity * UnitOf
    /\ (ret.op \in {"inc", "get"} /\ ret.err = "none") =>
          /\ 0 <= ret.totalHits
          /\ ret.totalHits <= bucketCapacity * UnitOf

\* C2: once N concurrent increments that started from a full row have all
\* committed (no refill interval having passed), the row holds
\* max(capacity - N, 0) tokens.
C2_ConcurrentIncrementsExact ==
    \A k \in keys :
        (/\ batch[k].n >= 0
         /\ Quiescent(k)
         /\ clock - batch[k].base < refillInterval)
        => token_buckets[k].tokens = Max(bucketCapacity - batch[k].n, 0)

\* C3: two increment/decrement transactions on one key are never both
\* between their row select and their commit or rollback.
C3_TransactionsMutuallyExclusive ==
    \A p, q \in callers :
        (p # q /\ conn[p].key = conn[q].key) => ~(InCritical(p) /\ InCritical(q))

\* C4: a call whose BEGIN, SELECT, write or COMMIT failed has issued a
\* ROLLBACK, raises that same failure, has released its connection and row
\* lock when it returns, and has left the row as it was.
C4_FailureRollsBackAndRethrows ==
    (ret.op \in {"inc", "dec"} /\ ret.cause \in {"begin", "select", "write", "commit"})
    => /\ ret.rolledBack
       /\ ret.err = ret.cause
       /\ ret.released
       /\ rowLock[ret.key] # ret.caller
       /\ ~ret.wrote

\* C5: the n-th of consecutive increments on a full bucket of capacity 10,
\* no time elapsing, returns max(10 - n, 0) and stores the same: 9, 8, ..., 0
\* and 0 again for the eleventh.
C5_ConsecutiveIncrementsCountDown ==
    (/\ ret.op = "inc" /\ ret.err = "none" /\ ret.seq >= 1
     /\ batch[ret.key].n = ret.seq
     /\ batch[ret.key].base = clock)
    => /\ ret.totalHits = Max(bucketCapacity - ret.seq, 0) * UnitOf
       /\ Stored(ret.key) = Max(bucketCapacity - ret.seq, 0) * UnitOf

\* C5 witness: the eleventh increment in a row has returned 0 (in-memory store)
C5_EleventhIncrement ==
    /\ backend = "mem" /\ bucketCapacity = 10
    /\ ret.op = "inc" /\ ret.seq = 11 /\ batch[ret.key].base = clock
    /\ ret.totalHits = 0 /\ Stored(ret.key) = 0

\* C6: with capacity 10 and 1 unit/s, get on a record that held remaining 0
\* at t0 reports 5 at t0 + 5000 ms.
C6_GetAppliesReplenishment ==
    (/\ ret.op = "get" /\ ret.found
     /\ bucketCapacity = 10
     /\ ret.pre.tokens = 0
     /\ clock = ret.pre.last_refill_time + 5000)
    => ret.totalHits = 5 * UnitOf

\* C7: get right after resetKey returns a record whose remaining is the
\* capacity.
C7_ResetThenGetIsFull ==
    (ret.op = "get" /\ ret.afterReset)
    => (ret.found /\ ret.totalHits = bucketCapacity * UnitOf)

(***************************************************************************)
(* Claims about the suspicion store and the gate                           *)
(***************************************************************************)
\* C8: the n-th suspicious request in a row from one key, no time elapsing,
\* scores n; the one that reaches the threshold is denied and blocks the key
\* until now + blockDurationMs; the next one is denied by the blocked check
\* alone, with no increment, the score staying at the threshold.
C8_EscalationToBlock ==
    LET k == verdict.ip
        n == verdict.n
    IN  n >= 1 =>
          /\ n <= suspicionThreshold =>
                /\ verdict.by = "score" /\ verdict.increments = 1
                /\ verdict.score = n /\ redis[k].score = n
          /\ n < suspicionThreshold =>
                verdict.status = "allow" /\ ~redis[k].isBlocked
          /\ n = suspicionThreshold =>
                /\ verdict.status = "deny"
                /\ redis[k].isBlocked
                /\ redis[k].expiry = redisNow + blockDurationMs
          /\ n = suspicionThreshold + 1 =>
                /\ verdict.status = "deny" /\ verdict.by = "blocked"
                /\ verdict.increments = 0
                /\ redis[k].score = suspicionThreshold

\* C8 witness: with threshold 5 the sixth suspicious request has been denied
\* by the blocked check and the score is still 5
C8_SixthRequestDenied ==
    /\ suspicionThreshold = 5 /\ verdict.n = 6
    /\ verdict.status = "deny" /\ verdict.by = "blocked"
    /\ redis[verdict.ip].score = 5 /\ redis[verdict.ip].isBlocked

\* C9: every suspicion record has score >= 0 and is blocked only with a
\* score at or above the threshold.
C9_BlockedOnlyAtThreshold ==
    \A k \in Keys :
        redis[k].exists =>
            /\ redis[k].score >= 0
            /\ redis[k].isBlocked => redis[k].score >= suspicionThreshold

\* C9 witness: a blocked record that was incremented past the threshold
C9_BlockedRecord ==
    \E k \in Keys :
        /\ redis[k].exists /\ redis[k].isBlocked
        /\ redis[k].score > suspicionThreshold

\* C10: an increment on a record whose expiry has passed leaves score 1,
\* expiry now + ttl, isBlocked false, and returns 1.
C10_ExpiredRecordResets ==
    (/\ sret.op = "increment"
     /\ sret.pre.exists
     /\ sret.pre.expiry <= sret.now)
    => /\ redis[sret.key] = Rec(1, sret.now + ttl, FALSE)
       /\ sret.value = 1

\* C10 witness: a blocked record of score 3 was incremented after its expiry
C10_ExpiredBlockedScoreThree ==
    /\ sret.op = "increment"
    /\ sret.pre.exists /\ sret.pre.expiry <= sret.now
    /\ sret.pre.score = 3 /\ sret.pre.isBlocked
    /\ redis[sret.key].score = 1

\* C11: flushExpired deletes exactly the records whose expiry <= now when it
\* runs, leaves every other record as it was, and returns the number deleted.
C11_FlushExpiredFrame ==
    [][sret'.op = "flushExpired" =>
          LET due == {k \in Keys : redis[k].exists /\ redis[k].expiry <= redisNow}
          IN  /\ \A k \in Keys :
                    redis'[k] = IF k \in due THEN NoRec ELSE redis[k]
              /\ sret'.value = Cardinality(due)]_vars

\* C11 witness: a sweep has deleted one expired record, returned 1, and left
\* a record that has not expired
C11_SweepDeletedOneOfTwo ==
    /\ sret.op = "flushExpired" /\ sret.value = 1
    /\ Cardinality(sret.deleted) = 1
    /\ \A k \in sret.deleted : ~redis[k].exists
    /\ \E k \in Keys : redis[k].exists /\ redis[k].expiry > sret.now

\* C12: increment(key) and flushExpired run one right after the other, in
\* either order, leave the key's record and increment's return value as the
\* order "sweep, then increment" does; an expired record ends as score 1,
\* expiry now + ttl, not blocked, with 1 returned, in both orders.
C12_SweepIncrementRaceBenign ==
    /\ (sret.op = "flushExpired" /\ sret.before.op = "increment") =>
          LET k == sret.before.key
              pre == sret.before.pre
              expired == pre.exists /\ pre.expiry <= sret.now
              serial == incrementScript(IF expired THEN NoRec ELSE pre, sret.now)
          IN  /\ redis[k] = serial
              /\ sret.before.value = serial.score
              /\ expired => /\ redis[k] = Rec(1, sret.now + ttl, FALSE)
                            /\ sret.before.value = 1
    /\ (/\ sret.op = "increment" /\ sret.before.op = "flushExpired"
        /\ sret.key \in sret.before.deleted) =>
          /\ redis[sret.key] = Rec(1, sret.now + ttl, FALSE)
          /\ sret.value = 1

\* C12 witness: increment ran on an expired blocked record, the sweep ran
\* right after it, and the record is the fresh one
C12_SweptAfterExpiredIncrement ==
    /\ sret.op = "flushExpired" /\ sret.before.op = "increment"
    /\ sret.before.pre.exists /\ sret.before.pre.isBlocked
    /\ sret.before.pre.expiry <= sret.now
    /\ redis[sret.before.key] = Rec(1, sret.now + ttl, FALSE)

\* C13: the gate denies a request without a client key on arrival, touching
\* no record; at the blocked check it denies a blocked key with no increment,
\* allows an unblocked request that matches no category with no record
\* changed, and passes any other request on to one increment; that increment
\* is the only change to the records, is one whatever the number of matched
\* categories, and the request is denied iff the returned score >= threshold.
C13_GateDecisionProcedure ==
    [][LET ip == gate.ip
       IN  /\ verdict'.by = "noip" =>
                 /\ verdict'.status = "deny"
                 /\ redis' = redis /\ sret' = NoScript
           /\ gate'.pc = "isBlocked" => gate'.ip \in keys
           /\ (gate.pc = "isBlocked" /\ gate'.pc # "isBlocked") =>
                 /\ redis' = redis
                 /\ IF redis[ip].exists /\ redis[ip].isBlocked
                    THEN /\ gate'.pc = "idle"
                         /\ verdict'.status = "deny" /\ verdict'.by = "blocked"
                         /\ verdict'.increments = 0
                    ELSE IF gate.attackTypes = {}
                    THEN /\ gate'.pc = "idle"
                         /\ verdict'.status = "allow"
                         /\ verdict'.increments = 0
                    ELSE /\ gate'.pc = "increment"
                         /\ verdict'.status = "none"
           /\ (gate.pc = "increment" /\ gate'.pc # "increment") =>
                 /\ gate'.pc = "idle"
                 /\ redis'[ip].score =
                       IF redis[ip].exists /\ redis[ip].expiry > redisNow
                       THEN redis[ip].score + 1 ELSE 1
                 /\ \A k \in Keys \ {ip} : redis'[k] = redis[k]
                 /\ verdict'.increments = 1
                 /\ verdict'.score = redis'[ip].score
                 /\ verdict'.status =
                       IF verdict'.score >= suspicionThreshold THEN "deny"
                       ELSE "allow"]_vars

\* C13 witness: a request matching two categories has been denied at the
\* threshold after one increment
C13_TwoCategoriesOneIncrement ==
    /\ verdict.by = "score" /\ verdict.status = "deny"
    /\ Cardinality(verdict.attackTypes) = 2
    /\ verdict.increments = 1
    /\ verdict.score = suspicionThreshold
    /\ redis[verdict.ip].score = suspicionThreshold

(***************************************************************************)
(* Claims about timestamps, decrement and first use                        *)
(***************************************************************************)
\* C14: across committed increment calls, in any order and interleaving, the
\* last_refill_time stored for a key never decreases.
C14_RefillTimeNeverDecreases ==
    [][\A k \in Keys :
          (token_buckets[k].exists /\ token_buckets'[k].exists) =>
              token_buckets'[k].last_refill_time
                  >= token_buckets[k].last_refill_time]_vars

\* C15: an increment on an existing suspicion record leaves an expiry no
\* earlier than the one the record had, for every threshold, ttl and
\* blockDurationMs.
C15_ExpiryNeverDecreases ==
    (sret.op = "increment" /\ sret.pre.exists)
    => redis[sret.key].expiry >= sret.pre.expiry

\* C16: decrement(key) on an existing record sets remaining to
\* min(remaining + 1, capacity) and leaves lastUpdated / last_refill_time and
\* every other key as they were; on a key without a record it changes
\* nothing; in the in-memory store and, at its commit, in the durable store,
\* whose other steps of the call change no row.
C16_DecrementFrame ==
    [][/\ (backend = "mem" /\ ret'.op = "dec") =>
            LET k == ret'.key
            IN  /\ clients'[k] =
                      IF clients[k].exists
                      THEN [clients[k] EXCEPT
                              !.remaining = Min(@ + windowMs,
                                                bucketCapacity * windowMs)]
                      ELSE clients[k]
                /\ \A j \in Keys \ {k} : clients'[j] = clients[j]
       /\ \A p \in callers :
            (/\ conn[p].op = "dec" \/ conn'[p].op = "dec"
             /\ conn'[p] # conn[p]) =>
               LET k == conn[p].key
               IN  IF conn[p].pc = "commit" /\ conn'[p].pc = "release"
                   THEN /\ token_buckets'[k] =
                              IF token_buckets[k].exists
                              THEN [token_buckets[k] EXCEPT
                                      !.tokens = Min(@ + 1, bucketCapacity)]
                              ELSE token_buckets[k]
                        /\ \A j \in Keys \ {k} :
                              token_buckets'[j] = token_buckets[j]
                   ELSE token_buckets' = token_buckets]_vars

\* C16 witness: a decrement has committed a full row in the durable store
\* while another key has a row
C16_DecrementCommitted ==
    \E p \in callers :
        /\ conn[p].pc = "release" /\ conn[p].op = "dec" /\ conn[p].wrote
        /\ token_buckets[conn[p].key].tokens = bucketCapacity
        /\ \E j \in Keys \ {conn[p].key} : token_buckets[j].exists

\* C17: in the in-memory store the n-th of N increment calls started
\* together on a key without elapsed time, the first one creating the full
\* bucket, reads exactly what the (n-1)-th wrote, returns max(capacity - n, 0)
\* and leaves that as remaining.
C17_MemoryIncrementsSerialise ==
    (/\ backend = "mem" /\ ret.op = "inc" /\ ret.seq >= 1
     /\ batch[ret.key].n = ret.seq
     /\ batch[ret.key].base = clock)
    => /\ ret.totalHits = Max(bucketCapacity - ret.seq, 0) * windowMs
       /\ clients[ret.key] =
             Client(Max(bucketCapacity - ret.seq, 0) * windowMs, clock)
       /\ ret.seq = 1 => ~ret.pre.exists
       /\ ret.seq >= 2 =>
             ret.pre = Row(Max(bucketCapacity - (ret.seq - 1), 0) * windowMs,
                           clock)

\* C17 witness: twelve increments at one instant on a bucket of capacity 10
\* have left remaining 0
C17_TwelveIncrementsAtOnce ==
    /\ backend = "mem" /\ bucketCapacity = 10
    /\ ret.op = "inc" /\ ret.seq = 12
    /\ batch[ret.key].n = 12 /\ batch[ret.key].base = clock
    /\ ret.pre.tokens = 0 /\ clients[ret.key].remaining = 0

\* the time an empty bucket takes to return to full: capacity / rate, in ms
fullAfter ==
    IF backend = "mem" THEN windowMs
    ELSE (bucketCapacity * MsPerSec) \div tokensPerInterval

\* the lastUpdated / last_refill_time the store in use holds for key k
StoredLastUpdated(k) ==
    IF backend = "mem" THEN clients[k].lastUpdated
    ELSE token_buckets[k].last_refill_time

\* C18: the resetTime that get and increment return is the lastUpdated the
\* record holds after the call plus capacity / rate, in both stores.
C18_ResetTimeFromStoredRecord ==
    (/\ ret.op \in {"inc", "get"} /\ ret.err = "none"
     /\ ret.op = "get" => ret.found)
    => ret.resetTime = StoredLastUpdated(ret.key) + fullAfter

\* C19: every committed increment of the durable store writes
\* last_refill_time = now; one that finds tokens = 0 and less than 1000 / rate
\* ms elapsed since the stored last_refill_time returns 0 and leaves
\* (0, now), so the next such increment is in the same position again.
C19_SubIntervalIncrementsStarve ==
    [][\A p \in callers :
          (/\ conn[p].op = "inc"
           /\ conn[p].pc = "commit" /\ conn'[p].pc = "release") =>
             LET k == conn[p].key
                 row == token_buckets[k]
                 elapsed == conn[p].now - row.last_refill_time
             IN  /\ token_buckets'[k].exists
                 /\ token_buckets'[k].last_refill_time = conn[p].now
                 /\ (/\ row.exists /\ row.tokens = 0
                     /\ 0 <= elapsed /\ elapsed < refillInterval) =>
                       /\ conn'[p].updatedTokens = 0
                       /\ token_buckets'[k] = Row(0, conn[p].now)]_vars

\* C19 witness: three seconds after the first call, an increment that came
\* 500 ms after the previous one has found 0 tokens, added none and
\* committed (0, now)
C19_StarvedAfterThreeSeconds ==
    \E p \in callers :
        /\ conn[p].pc = "release" /\ conn[p].op = "inc" /\ conn[p].err = "none"
        /\ conn[p].found /\ conn[p].wrote
        /\ conn[p].now >= 3 * refillInterval
        /\ conn[p].now - conn[p].lastRefillTime = 500
        /\ conn[p].updatedTokens = 0
        /\ token_buckets[conn[p].key] = Row(0, conn[p].now)

\* C20: the first increment on a key without a record creates the record
\* and returns and stores capacity - 1, in both stores.
C20_FirstIncrementFromFull ==
    (ret.op = "inc" /\ ret.err = "none" /\ ~ret.found)
    => /\ ret.totalHits = (bucketCapacity - 1) * UnitOf
       /\ Stored(ret.key) = (bucketCapacity - 1) * UnitOf

====
